---- MODULE Spec2Model ----
(***************************************************************************)
(* A model of minima's repository syncer (package get): Syncer.StoreRepo,  *)
(* processMetadata and processPrimary, driven against a local Storage and  *)
(* a remote HTTP repository.  One run of StoreRepo is a sequence of steps, *)
(* one per fetch, checksum query, recycle and commit; the remote's answers *)
(* and the local store's faults are chosen nondeterministically.           *)
(***************************************************************************)
EXTENDS Naturals, Sequences, FiniteSets, TLC

VARIABLES
    index,              \* remote repodata/repomd.xml: sequence of XMLData
    manifest,           \* remote package manifest of the first primary entry
    archs,              \* Syncer.archs: map[string]bool
    dir,                \* files under Storage.directory: path -> content
    current,            \* paths stored or recycled in the generation in progress
    pc,                 \* position of the run
    data,               \* repomd.Data decoded in processMetadata
    i,                  \* index into data (loop of processMetadata)
    primary,            \* primary.Packages decoded in processPrimary
    j,                  \* index into primary (loop of processPrimary)
    primDownload,       \* processPrimary's result packagesToDownload
    primRecycle,        \* processPrimary's result packagesToRecycle
    packagesToDownload, \* processMetadata's / StoreRepo's packagesToDownload
    packagesToRecycle,  \* processMetadata's / StoreRepo's packagesToRecycle
    k,                  \* position in the download / recycle loop of StoreRepo
    err,                \* error returned by the run (NoErr when none)
    run,                \* number of StoreRepo invocations started
    ops,                \* history: external operations of the current run
    classLog,           \* history: checksum queries of the last processPrimary
    startDir,           \* history: dir when the current run started
    prevOk,             \* history: the previous run succeeded
    ioFailed,           \* history: some checksum query hit a local read failure
    sr                  \* a storingReader, its source and its file

vars == << index, manifest, archs, dir, current, pc, data, i, primary, j,
           primDownload, primRecycle, packagesToDownload, packagesToRecycle,
           k, err, run, ops, classLog, startDir, prevOk, ioFailed, sr >>

----------------------------------------------------------------------------
(* Bounds *)

MaxPkgs == 2
MaxRuns == 2
MaxBody == 4
MaxChunk == 3
BufSize == 2

----------------------------------------------------------------------------
(* Strings are sequences of characters, so that suffix tests are computed. *)

RECURSIVE Digits(_)
Digits(n) ==
    LET d == n % 10
        c == CASE d = 0 -> "0" [] d = 1 -> "1" [] d = 2 -> "2" [] d = 3 -> "3"
               [] d = 4 -> "4" [] d = 5 -> "5" [] d = 6 -> "6" [] d = 7 -> "7"
               [] d = 8 -> "8" [] OTHER -> "9"
    IN  IF n < 10 THEN << c >> ELSE Append(Digits(n \div 10), c)

HasSuffix(s, suffix) ==
    /\ Len(s) >= Len(suffix)
    /\ SubSeq(s, Len(s) - Len(suffix) + 1, Len(s)) = suffix

----------------------------------------------------------------------------
(* Errors: a Go error is a kind (its identity) and the text of Error().    *)

NoErr == [kind |-> "nil", msg |-> << >>]

ErrFileNotFound == [kind |-> "ErrFileNotFound",
                    msg |-> << "n", "o", "t", " ", "f", "o", "u", "n", "d" >>]

ChecksumError == [kind |-> "ChecksumError",
                  msg |-> << "c", "h", "e", "c", "k", "s", "u", "m" >>]

RecycleError == [kind |-> "RecycleError",
                 msg |-> << "r", "e", "c", "y", "c", "l", "e" >>]

CommitError == [kind |-> "CommitError",
                msg |-> << "c", "o", "m", "m", "i", "t" >>]

\* DownloadApply's error for a non-2xx response: the status code ends the text.
HttpError(code) == [kind |-> "HttpError",
                    msg |-> << "H", "T", "T", "P", " " >> \o Digits(code)]

\* A transport error of http.Get; its text names the URL, here one holding 404.
TransportError == [kind |-> "TransportError",
                   msg |-> << "G", "e", "t", " ", "/", "4", "0", "4", "/",
                              ":", " ", "E", "O", "F" >>]

\* os.Create's *PathError in NewStoringReader.
CreateError == [kind |-> "CreateError",
                msg |-> << "o", "p", "e", "n", ":", " ",
                           "d", "e", "n", "i", "e", "d" >>]

\* A failure while the body is read or decoded, after the file was created.
ReadError == [kind |-> "ReadError",
              msg |-> << "u", "n", "e", "x", "p", "e", "c", "t", "e", "d",
                         " ", "E", "O", "F" >>]

\* What one fetch-and-store can come to.
Outcomes == { "ok", "http404", "http504", "transport", "create", "read" }

OutcomeErr(o) ==
    CASE o = "ok"        -> NoErr
      [] o = "http404"   -> HttpError(404)
      [] o = "http504"   -> HttpError(504)
      [] o = "transport" -> TransportError
      [] o = "create"    -> CreateError
      [] OTHER           -> ReadError

----------------------------------------------------------------------------
(* Paths and the remote repository *)

repomdPath == "repodata/repomd.xml"
ascPath    == "repodata/repomd.xml.asc"
keyPath    == "repodata/repomd.xml.key"

PrimaryHref  == "repodata/primary.xml.gz"
Primary2Href == "repodata/primary2.xml.gz"
OtherHref    == "repodata/other.xml.gz"

MetaPaths == { repomdPath, ascPath, keyPath, PrimaryHref, Primary2Href, OtherHref }
PkgPaths  == { "a.rpm", "b.rpm" }
Paths     == MetaPaths \cup PkgPaths

Absent == "absent"

\* Content of a remote file, and of a file that was created but not completed.
RemoteContent(path) == "new"
InFlight == "inflight"

\* The digest of a file's content under a supported algorithm.
Digest(alg, content) == << alg, content >>

\* XMLPackage records a manifest is made of.
XMLPackage(arch, href, type, checksum) ==
    [Arch |-> arch, Location |-> href, Type |-> type, Checksum |-> checksum]

Packs ==
    { XMLPackage("noarch", "a.rpm", "sha256", Digest("SHA256", "new")),
      XMLPackage("x86_64", "b.rpm", "sha",    Digest("SHA1",   "new")),
      XMLPackage("i386",   "b.rpm", "sha1",   Digest("SHA1",   "new")),
      XMLPackage("x86_64", "a.rpm", "md5",    Digest("SHA1",   "new")) }

Manifests == UNION { [1..n -> Packs] : n \in 0..MaxPkgs }

\* The manifest the second primary entry of an index refers to.
Manifest2 == << XMLPackage("noarch", "b.rpm", "sha256", Digest("SHA256", "new")) >>

RemoteManifest(href) == IF href = PrimaryHref THEN manifest ELSE Manifest2

XMLData(type, href) == [Type |-> type, Location |-> href]

Indexes ==
    { << >>,
      << XMLData("primary", PrimaryHref) >>,
      << XMLData("filelists", OtherHref), XMLData("primary", PrimaryHref) >>,
      << XMLData("primary", PrimaryHref), XMLData("primary", Primary2Href) >> }

HasPrimary(ix) == \E n \in 1..Len(ix) : ix[n].Type = "primary"

\* Architecture filters handed to NewSyncer.
EmptyMap == [a \in {} |-> TRUE]

ArchMaps ==
    { EmptyMap,
      [a \in {"x86_64"} |-> TRUE],
      [a \in {"x86_64", "i386"} |-> (a = "x86_64")] }

----------------------------------------------------------------------------
(* Storage *)

\* checksumTypeMap; a name it does not hold yields ChecksumType's zero value.
checksumTypeMap ==
    [t \in {"sha", "sha1", "sha256"} |-> IF t = "sha256" THEN "SHA256" ELSE "SHA1"]

ZeroChecksumType == "Unknown"

LookupChecksumType(t) ==
    IF t \in DOMAIN checksumTypeMap THEN checksumTypeMap[t] ELSE ZeroChecksumType

\* Storage.Checksum(filename, checksumType): the digest of the stored file.
\* ioFail is a local read failure of this query.
StorageChecksum(d, path, alg, ioFail) ==
    IF d[path] = Absent
    THEN [sum |-> << >>, err |-> ErrFileNotFound]
    ELSE IF alg \notin {"SHA1", "SHA256"} \/ ioFail
    THEN [sum |-> << >>, err |-> ChecksumError]
    ELSE [sum |-> Digest(alg, d[path]), err |-> NoErr]

\* Storage.NewStoringReader: os.Create makes and truncates the file in place,
\* in Storage.directory.
NewStoringReader(d, path) == [d EXCEPT ![path] = InFlight]

\* storingReader.Close after the whole body went through the TeeReader: the
\* consumer of a plain store (util.Nop under DownloadApply) is taken to read
\* the stream to its end.
StoredWhole(d, path) == [d EXCEPT ![path] = RemoteContent(path)]

\* Content of a file stored while a decoder consumed the stream: the bytes
\* the decoder's Read calls pulled from the source, that is its document and
\* none, some or all of the bytes after it.  Which of these is left open
\* here; SpecStoringReader below tells them apart.
Consumed == "consumed"

\* storingReader.Close after a decoder consumed the stream: Close flushes
\* what was read and does not read the source to its end.
StoredRead(d, path) == [d EXCEPT ![path] = Consumed]

\* The directory after one fetch-and-store of path by a plain store came to
\* outcome o.  "read" stands for a failure after the file was created: a
\* Read of the body or the Close of the stream failed, and the file holds
\* the bytes written until then.
StoreOutcome(d, path, o) ==
    CASE o = "ok"   -> StoredWhole(NewStoringReader(d, path), path)
      [] o = "read" -> NewStoringReader(d, path)
      [] OTHER      -> d

\* Whether the outcome created the file under path.
Created(o) == o \in {"ok", "read"}

\* Storage.Commit: what is not part of the generation in progress is dropped.
Committed(d, cur) == [p \in Paths |-> IF p \in cur THEN d[p] ELSE Absent]

----------------------------------------------------------------------------
(* storingReader: a TeeReader from the source to a bufio.Writer on the file *)

\* No storing reader under observation.
NoReader ==
    [st |-> "none", body |-> << >>, docLen |-> 0, pos |-> 0, got |-> << >>,
     buf |-> << >>,
     file |-> << >>, werr |-> FALSE, closes |-> 0, closeErr |-> "nil"]

\* Response bodies: bytes told apart by their position.
Bodies == { [n \in 1..len |-> n] : len \in 0..MaxBody }

\* bufio.Writer.Flush: a pending error sticks; else the buffer goes to the
\* file, unless the disk write fails (dfail).
Flush(w, dfail) ==
    IF w.werr \/ Len(w.buf) = 0 THEN w
    ELSE IF dfail THEN [w EXCEPT !.werr = TRUE]
    ELSE [w EXCEPT !.file = w.file \o w.buf, !.buf = << >>]

\* bufio.Writer.Write(p): while p exceeds the room left, a write on an empty
\* buffer goes straight to the file, else the buffer is filled and flushed;
\* what remains is copied into the buffer.  The result is the writer and nn,
\* the number of bytes of p it accepted (with nn already accepted before).
RECURSIVE BufWrite(_, _, _, _)
BufWrite(w, p, dfail, nn) ==
    IF Len(p) > BufSize - Len(w.buf) /\ ~ w.werr
    THEN IF Len(w.buf) = 0
         THEN IF dfail THEN [w |-> [w EXCEPT !.werr = TRUE], nn |-> nn]
              ELSE [w |-> [w EXCEPT !.file = w.file \o p], nn |-> nn + Len(p)]
         ELSE LET room == BufSize - Len(w.buf)
                  full == [w EXCEPT !.buf = w.buf \o SubSeq(p, 1, room)]
              IN  BufWrite(Flush(full, dfail), SubSeq(p, room + 1, Len(p)),
                           dfail, nn + room)
    ELSE IF w.werr THEN [w |-> w, nn |-> nn]
    ELSE [w |-> [w EXCEPT !.buf = w.buf \o p], nn |-> nn + Len(p)]

----------------------------------------------------------------------------
(* Syncer *)

\* r.archs[arch]: a missing key yields false.
ArchLookup(a, arch) == IF arch \in DOMAIN a THEN a[arch] ELSE FALSE

\* Mutant of PassesFilter: membership decided by the key alone.
PassesFilterKeys(a, arch) ==
    \/ Cardinality(DOMAIN a) = 0
    \/ arch = "noarch"
    \/ arch \in DOMAIN a

\* processPrimary's filter: allArchs || pack.Arch == "noarch" || r.archs[pack.Arch]
PassesFilter(a, arch) ==
    \/ Cardinality(DOMAIN a) = 0
    \/ arch = "noarch"
    \/ ArchLookup(a, arch)

\* Mutant of Classify: a stored file is kept without comparing checksums.
ClassifyNoCompare(qerr, storageChecksum, pack) ==
    CASE qerr = ErrFileNotFound -> "download"
      [] qerr # ErrFileNotFound /\ qerr # NoErr -> "skip"
      [] OTHER -> "recycle"

\* Mutant of Classify: every query error is taken as a missing file.
ClassifyErrDownload(qerr, storageChecksum, pack) ==
    CASE qerr # NoErr -> "download"
      [] qerr = NoErr /\ pack.Checksum # storageChecksum -> "download"
      [] OTHER -> "recycle"

\* Mutant of Classify: a stored file is fetched again even when it matches.
ClassifyMatchDownload(qerr, storageChecksum, pack) ==
    CASE qerr = ErrFileNotFound -> "download"
      [] qerr # ErrFileNotFound /\ qerr # NoErr -> "skip"
      [] OTHER -> "download"

\* Mutant of Classify: a missing file is taken as a failed query.
ClassifyNotFoundSkip(qerr, storageChecksum, pack) ==
    CASE qerr # NoErr -> "skip"
      [] qerr = NoErr /\ pack.Checksum # storageChecksum -> "download"
      [] OTHER -> "recycle"

\* The switch of processPrimary on the result of Storage.Checksum.
Classify(qerr, storageChecksum, pack) ==
    CASE qerr = ErrFileNotFound -> "download"
      [] qerr # ErrFileNotFound /\ qerr # NoErr -> "skip"
      [] qerr = NoErr /\ pack.Checksum # storageChecksum -> "download"
      [] OTHER -> "recycle"

\* Mutant of Is404: the test looks for the status text, not the code.
Is404Text(e) == HasSuffix(e.msg, << "N", "o", "t", " ", "F", "o", "u", "n", "d" >>)

\* Mutant of Is404: strings.Contains in place of strings.HasSuffix.
Is404Anywhere(e) ==
    \E n \in 1..Len(e.msg) :
        n + 2 <= Len(e.msg) /\ SubSeq(e.msg, n, n + 2) = << "4", "0", "4" >>

\* strings.HasSuffix(err.Error(), "404")
Is404(e) == HasSuffix(e.msg, << "4", "0", "4" >>)

Op(op, path, out) == [op |-> op, path |-> path, out |-> out]

----------------------------------------------------------------------------
(* Initial state: a remote repository, a filter, and a local directory that *)
(* holds, for each package path, nothing, the remote's file or another one. *)

InitDirs ==
    { [p \in Paths |-> IF p \in PkgPaths THEN f[p] ELSE Absent] :
        f \in [PkgPaths -> {Absent, "new", "old"}] }

Init ==
    /\ index \in Indexes
    /\ manifest \in IF HasPrimary(index) THEN Manifests ELSE { << >> }
    /\ archs \in ArchMaps
    /\ dir \in InitDirs
    /\ current = {}
    /\ pc = "idle"
    /\ data = << >>
    /\ i = 1
    /\ primary = << >>
    /\ j = 1
    /\ primDownload = << >>
    /\ primRecycle = << >>
    /\ packagesToDownload = << >>
    /\ packagesToRecycle = << >>
    /\ k = 1
    /\ err = NoErr
    /\ run = 0
    /\ ops = << >>
    /\ classLog = << >>
    /\ startDir = dir
    /\ prevOk = FALSE
    /\ ioFailed = FALSE
    /\ sr = NoReader

remote == << index, manifest, archs >>

\* return with an error: the run is over.
Fail(e) ==
    /\ pc' = "failed"
    /\ err' = e

\* A call of StoreRepo: the first one, or the next one after a run that
\* succeeded (a failed run ends the behaviours explored here).
StartRun ==
    /\ pc \in {"idle", "done"}
    /\ run < MaxRuns
    /\ run' = run + 1
    /\ prevOk' = (pc = "done")
    /\ pc' = "index"
    /\ err' = NoErr
    /\ current' = {}
    /\ data' = << >>
    /\ i' = 1
    /\ primary' = << >>
    /\ j' = 1
    /\ primDownload' = << >>
    /\ primRecycle' = << >>
    /\ packagesToDownload' = << >>
    /\ packagesToRecycle' = << >>
    /\ k' = 1
    /\ ops' = << >>
    /\ classLog' = << >>
    /\ startDir' = dir
    /\ UNCHANGED << remote, sr, dir, ioFailed >>

\* processMetadata: downloadStoreApply(repomdPath, ...) up to the decoding of
\* the index; the entries are processed while the stream is still open.
FetchIndex(o) ==
    /\ pc = "index"
    /\ ops' = Append(ops, Op("fetch", repomdPath, o))
    /\ IF o = "ok"
       THEN /\ dir' = NewStoringReader(dir, repomdPath)
            /\ current' = current \cup {repomdPath}
            /\ data' = index
            /\ i' = 1
            /\ pc' = "entries"
            /\ UNCHANGED err
       ELSE /\ dir' = StoreOutcome(dir, repomdPath, o)
            /\ current' = IF Created(o) THEN current \cup {repomdPath} ELSE current
            /\ Fail(OutcomeErr(o))
            /\ UNCHANGED << data, i >>
    /\ UNCHANGED << remote, sr, primary, j, primDownload, primRecycle,
                    packagesToDownload, packagesToRecycle, k, run,
                    classLog, startDir, prevOk, ioFailed >>

\* Mutant of FetchOther: the loop goes on after a failed entry.
FetchOtherGoOn(o) ==
    /\ pc = "entries"
    /\ i <= Len(data)
    /\ data[i].Type # "primary"
    /\ ops' = Append(ops, Op("fetch", data[i].Location, o))
    /\ dir' = StoreOutcome(dir, data[i].Location, o)
    /\ current' = IF Created(o) THEN current \cup {data[i].Location} ELSE current
    /\ i' = i + 1
    /\ err' = IF o = "ok" THEN err ELSE OutcomeErr(o)
    /\ UNCHANGED << remote, sr, pc, data, primary, j, primDownload, primRecycle,
                    packagesToDownload, packagesToRecycle, k, run,
                    classLog, startDir, prevOk, ioFailed >>

\* processMetadata's loop, an entry that is not primary: downloadStore(metadataPath)
FetchOther(o) ==
    /\ pc = "entries"
    /\ i <= Len(data)
    /\ data[i].Type # "primary"
    /\ ops' = Append(ops, Op("fetch", data[i].Location, o))
    /\ dir' = StoreOutcome(dir, data[i].Location, o)
    /\ current' = IF Created(o) THEN current \cup {data[i].Location} ELSE current
    /\ IF o = "ok"
       THEN /\ i' = i + 1
            /\ UNCHANGED << pc, err >>
       ELSE /\ Fail(OutcomeErr(o))
            /\ UNCHANGED i
    /\ UNCHANGED << remote, sr, data, primary, j, primDownload, primRecycle,
                    packagesToDownload, packagesToRecycle, k, run,
                    classLog, startDir, prevOk, ioFailed >>

\* processPrimary: downloadStoreApply(path, ...) up to the decoding of the
\* manifest.  On an error processMetadata assigns processPrimary's (empty)
\* results and returns.
FetchPrimary(o) ==
    /\ pc = "entries"
    /\ i <= Len(data)
    /\ data[i].Type = "primary"
    /\ ops' = Append(ops, Op("fetch", data[i].Location, o))
    /\ classLog' = << >>
    /\ primDownload' = << >>
    /\ primRecycle' = << >>
    /\ IF o = "ok"
       THEN /\ dir' = NewStoringReader(dir, data[i].Location)
            /\ current' = current \cup {data[i].Location}
            /\ primary' = RemoteManifest(data[i].Location)
            /\ j' = 1
            /\ pc' = "classify"
            /\ UNCHANGED << err, packagesToDownload, packagesToRecycle >>
       ELSE /\ dir' = StoreOutcome(dir, data[i].Location, o)
            /\ current' = IF Created(o) THEN current \cup {data[i].Location}
                          ELSE current
            /\ packagesToDownload' = << >>
            /\ packagesToRecycle' = << >>
            /\ Fail(OutcomeErr(o))
            /\ UNCHANGED << primary, j >>
    /\ UNCHANGED << remote, sr, data, i, k, run, startDir, prevOk, ioFailed >>

\* Mutant of ClassifyRecord: a record to download is also put on the list
\* of the records to recycle.
ClassifyRecordBoth(ioFail) ==
    /\ pc = "classify"
    /\ j <= Len(primary)
    /\ LET pack == primary[j]
           q == StorageChecksum(dir, pack.Location,
                                LookupChecksumType(pack.Type), ioFail)
           c == Classify(q.err, q.sum, pack)
       IN  IF PassesFilter(archs, pack.Arch)
           THEN /\ ops' = Append(ops, Op("checksum", pack.Location, c))
                /\ ioFailed' = (ioFailed \/ (ioFail /\ q.err = ChecksumError))
                /\ classLog' = Append(classLog,
                       [pack |-> pack, err |-> q.err, sum |-> q.sum, class |-> c])
                /\ primDownload' = IF c = "download"
                                   THEN Append(primDownload, pack)
                                   ELSE primDownload
                /\ primRecycle' = IF c \in {"recycle", "download"}
                                  THEN Append(primRecycle, pack)
                                  ELSE primRecycle
           ELSE UNCHANGED << ops, classLog, primDownload, primRecycle, ioFailed >>
    /\ j' = j + 1
    /\ UNCHANGED << remote, sr, dir, current, pc, data, i, primary,
                    packagesToDownload, packagesToRecycle, k, err, run,
                    startDir, prevOk >>

\* processPrimary's loop, one record: the filter, Storage.Checksum, the switch.
ClassifyRecord(ioFail) ==
    /\ pc = "classify"
    /\ j <= Len(primary)
    /\ LET pack == primary[j]
           q == StorageChecksum(dir, pack.Location,
                                LookupChecksumType(pack.Type), ioFail)
           c == Classify(q.err, q.sum, pack)
       IN  IF PassesFilter(archs, pack.Arch)
           THEN /\ ops' = Append(ops, Op("checksum", pack.Location, c))
                /\ ioFailed' = (ioFailed \/ (ioFail /\ q.err = ChecksumError))
                /\ classLog' = Append(classLog,
                       [pack |-> pack, err |-> q.err, sum |-> q.sum, class |-> c])
                /\ primDownload' = IF c = "download"
                                   THEN Append(primDownload, pack)
                                   ELSE primDownload
                /\ primRecycle' = IF c = "recycle"
                                  THEN Append(primRecycle, pack)
                                  ELSE primRecycle
           ELSE UNCHANGED << ops, classLog, primDownload, primRecycle, ioFailed >>
    /\ j' = j + 1
    /\ UNCHANGED << remote, sr, dir, current, pc, data, i, primary,
                    packagesToDownload, packagesToRecycle, k, err, run,
                    startDir, prevOk >>

\* Mutant of PrimaryReturn: the lists of this manifest are added to those of
\* the primary entries before it.
PrimaryReturnMerge ==
    /\ pc = "classify"
    /\ j > Len(primary)
    /\ dir' = StoredRead(dir, data[i].Location)
    /\ packagesToDownload' = packagesToDownload \o primDownload
    /\ packagesToRecycle' = packagesToRecycle \o primRecycle
    /\ i' = i + 1
    /\ pc' = "entries"
    /\ UNCHANGED << remote, sr, current, data, primary, j, primDownload,
                    primRecycle, k, err, run, ops, classLog, startDir, prevOk, ioFailed >>

\* processPrimary returns: the manifest's stream is closed, processMetadata
\* takes the two lists and goes on to the next entry.
PrimaryReturn ==
    /\ pc = "classify"
    /\ j > Len(primary)
    /\ dir' = StoredRead(dir, data[i].Location)
    /\ packagesToDownload' = primDownload
    /\ packagesToRecycle' = primRecycle
    /\ i' = i + 1
    /\ pc' = "entries"
    /\ UNCHANGED << remote, sr, current, data, primary, j, primDownload,
                    primRecycle, k, err, run, ops, classLog, startDir, prevOk, ioFailed >>

\* Mutant of EntriesDone: the loop is left after its first entry.
EntriesDoneEarly ==
    /\ pc = "entries"
    /\ i > 1
    /\ dir' = StoredRead(dir, repomdPath)
    /\ pc' = "asc"
    /\ UNCHANGED << remote, sr, current, data, i, primary, j, primDownload,
                    primRecycle, packagesToDownload, packagesToRecycle, k,
                    err, run, ops, classLog, startDir, prevOk, ioFailed >>

\* processMetadata's loop is over: the index's stream is closed.
EntriesDone ==
    /\ pc = "entries"
    /\ i > Len(data)
    /\ dir' = StoredRead(dir, repomdPath)
    /\ pc' = "asc"
    /\ UNCHANGED << remote, sr, current, data, i, primary, j, primDownload,
                    primRecycle, packagesToDownload, packagesToRecycle, k,
                    err, run, ops, classLog, startDir, prevOk, ioFailed >>

\* The stage of StoreRepo that follows, with kNext the next download position.
StageAfter(kNext) ==
    IF kNext <= Len(packagesToDownload) THEN "download"
    ELSE IF Len(packagesToRecycle) > 0 THEN "recycle"
    ELSE "commit"

\* Mutant of FetchSignature: a signature file that the store holds is kept
\* and not fetched.
FetchSignatureIfAbsent(path, o, next) ==
    /\ IF dir[path] # Absent
       THEN /\ current' = current \cup {path}
            /\ pc' = next
            /\ UNCHANGED << ops, dir, err >>
       ELSE /\ ops' = Append(ops, Op("fetch", path, o))
            /\ dir' = StoreOutcome(dir, path, o)
            /\ current' = IF Created(o) THEN current \cup {path} ELSE current
            /\ IF o = "ok" \/ Is404(OutcomeErr(o))
               THEN /\ pc' = next
                    /\ UNCHANGED err
               ELSE Fail(OutcomeErr(o))
    /\ UNCHANGED << remote, sr, data, i, primary, j, primDownload, primRecycle,
                    packagesToDownload, packagesToRecycle, run, classLog,
                    startDir, prevOk, ioFailed >>

\* downloadStore of a signature file: a 404 is ignored, another error returned.
FetchSignature(path, o, next) ==
    /\ ops' = Append(ops, Op("fetch", path, o))
    /\ dir' = StoreOutcome(dir, path, o)
    /\ current' = IF Created(o) THEN current \cup {path} ELSE current
    /\ IF o = "ok" \/ Is404(OutcomeErr(o))
       THEN /\ pc' = next
            /\ UNCHANGED err
       ELSE Fail(OutcomeErr(o))
    /\ UNCHANGED << remote, sr, data, i, primary, j, primDownload, primRecycle,
                    packagesToDownload, packagesToRecycle, run, classLog,
                    startDir, prevOk, ioFailed >>

\* processMetadata: downloadStore(repomdPath + ".asc")
FetchAsc(o) ==
    /\ pc = "asc"
    /\ FetchSignature(ascPath, o, "key")
    /\ UNCHANGED k

\* processMetadata: downloadStore(repomdPath + ".key"), then StoreRepo's loops.
FetchKey(o) ==
    /\ pc = "key"
    /\ FetchSignature(keyPath, o, StageAfter(1))
    /\ k' = 1

\* Mutant of DownloadPackage: the loop goes on after a failed download.
DownloadPackageGoOn(o) ==
    /\ pc = "download"
    /\ k <= Len(packagesToDownload)
    /\ LET path == packagesToDownload[k].Location
       IN  /\ ops' = Append(ops, Op("fetch", path, o))
           /\ dir' = StoreOutcome(dir, path, o)
           /\ current' = IF Created(o) THEN current \cup {path} ELSE current
    /\ pc' = StageAfter(k + 1)
    /\ k' = IF StageAfter(k + 1) = "download" THEN k + 1 ELSE 1
    /\ err' = IF o = "ok" THEN err ELSE OutcomeErr(o)
    /\ UNCHANGED << remote, sr, data, i, primary, j, primDownload, primRecycle,
                    packagesToDownload, packagesToRecycle, run, classLog,
                    startDir, prevOk, ioFailed >>

\* StoreRepo's first loop: downloadStoreApply(pack.Location.Href, ...)
DownloadPackage(o) ==
    /\ pc = "download"
    /\ k <= Len(packagesToDownload)
    /\ LET path == packagesToDownload[k].Location
       IN  /\ ops' = Append(ops, Op("fetch", path, o))
           /\ dir' = StoreOutcome(dir, path, o)
           /\ current' = IF Created(o) THEN current \cup {path} ELSE current
    /\ IF o = "ok"
       THEN /\ pc' = StageAfter(k + 1)
            /\ k' = IF StageAfter(k + 1) = "download" THEN k + 1 ELSE 1
            /\ UNCHANGED err
       ELSE /\ Fail(OutcomeErr(o))
            /\ UNCHANGED k
    /\ UNCHANGED << remote, sr, data, i, primary, j, primDownload, primRecycle,
                    packagesToDownload, packagesToRecycle, run, classLog,
                    startDir, prevOk, ioFailed >>

\* Mutant of RecyclePackage: the loop runs without calling Storage.Recycle.
RecyclePackageNoCall(fail) ==
    /\ pc = "recycle"
    /\ k <= Len(packagesToRecycle)
    /\ pc' = IF k + 1 <= Len(packagesToRecycle) THEN "recycle" ELSE "commit"
    /\ k' = k + 1
    /\ UNCHANGED << remote, sr, dir, current, data, i, primary, j, primDownload,
                    primRecycle, packagesToDownload, packagesToRecycle, run,
                    err, ops, classLog, startDir, prevOk, ioFailed >>

\* StoreRepo's second loop: r.storage.Recycle(pack.Location.Href).  Recycle
\* keeps a stored file for the generation in progress; it fails when the
\* file is not there or cannot be kept.
RecyclePackage(fail) ==
    /\ pc = "recycle"
    /\ k <= Len(packagesToRecycle)
    /\ LET path == packagesToRecycle[k].Location
           bad == fail \/ dir[path] = Absent
       IN  /\ ops' = Append(ops, Op("recycle", path, IF bad THEN "error" ELSE "ok"))
           /\ IF bad
              THEN /\ Fail(RecycleError)
                   /\ UNCHANGED << current, k >>
              ELSE /\ current' = current \cup {path}
                   /\ pc' = IF k + 1 <= Len(packagesToRecycle)
                            THEN "recycle" ELSE "commit"
                   /\ k' = k + 1
                   /\ UNCHANGED err
    /\ UNCHANGED << remote, sr, dir, data, i, primary, j, primDownload,
                    primRecycle, packagesToDownload, packagesToRecycle, run,
                    classLog, startDir, prevOk, ioFailed >>

\* StoreRepo: r.storage.Commit()
Commit(fail) ==
    /\ pc = "commit"
    /\ ops' = Append(ops, Op("commit", "", IF fail THEN "error" ELSE "ok"))
    /\ IF fail
       THEN /\ Fail(CommitError)
            /\ UNCHANGED << dir, current >>
       ELSE /\ dir' = Committed(dir, current)
            /\ current' = {}
            /\ pc' = "done"
            /\ UNCHANGED err
    /\ UNCHANGED << remote, sr, data, i, primary, j, primDownload, primRecycle,
                    packagesToDownload, packagesToRecycle, k, run, classLog,
                    startDir, prevOk, ioFailed >>

Next ==
    \/ StartRun
    \/ \E o \in Outcomes : FetchIndex(o)
    \/ \E o \in Outcomes : FetchOther(o)
    \/ \E o \in Outcomes : FetchPrimary(o)
    \/ \E ioFail \in BOOLEAN : ClassifyRecord(ioFail)
    \/ PrimaryReturn
    \/ EntriesDone
    \/ \E o \in Outcomes : FetchAsc(o)
    \/ \E o \in Outcomes : FetchKey(o)
    \/ \E o \in Outcomes : DownloadPackage(o)
    \/ \E fail \in BOOLEAN : RecyclePackage(fail)
    \/ \E fail \in BOOLEAN : Commit(fail)

Spec == Init /\ [][Next]_vars

TypeOK ==
    /\ pc \in {"idle", "index", "entries", "classify", "asc", "key",
               "download", "recycle", "commit", "done", "failed"}
    /\ run \in 0..MaxRuns
    /\ \A p \in Paths : dir[p] \in {Absent, "new", "old", InFlight, Consumed}
    /\ current \subseteq Paths

----------------------------------------------------------------------------
(* What the properties below are stated with *)

InSeq(x, s) == \E n \in 1..Len(s) : s[n] = x

\* The architecture filter as the specification words it: the set of accepted
\* architecture names, empty when the map holds no name.
Accepted == { a \in {"noarch", "x86_64", "i386"} : a \in DOMAIN archs /\ archs[a] }

Considered(pack) ==
    \/ DOMAIN archs = {}
    \/ pack.Arch = "noarch"
    \/ pack.Arch \in Accepted

\* processPrimary has gone through every record and is about to return.
Classified == pc = "classify" /\ j > Len(primary)

\* processMetadata has returned to StoreRepo without error.
InStoreRepo == pc \in {"download", "recycle", "commit", "done"}

KnownTypes == {"sha", "sha1", "sha256"}

----------------------------------------------------------------------------
(* C1: for every record that passes the filter, when Storage.Checksum       *)
(* succeeds and its value differs from the record's checksum, processPrimary *)
(* puts the record in packagesToDownload and not in packagesToRecycle.      *)
C1_MismatchIsDownload ==
    \A n \in 1..Len(classLog) :
        (classLog[n].err = NoErr /\ classLog[n].sum # classLog[n].pack.Checksum)
            => /\ InSeq(classLog[n].pack, primDownload)
               /\ ~ InSeq(classLog[n].pack, primRecycle)

C1_Witness ==
    /\ Classified
    /\ \E n \in 1..Len(classLog) :
          /\ classLog[n].err = NoErr
          /\ classLog[n].sum # classLog[n].pack.Checksum
          /\ InSeq(classLog[n].pack, primDownload)

(* C2: a record whose checksum type is none of "sha", "sha1", "sha256" is   *)
(* never classified recycle, whatever file is stored under its location; it *)
(* is always classified download.                                           *)
C2_UnknownTypeIsDownload ==
    \A n \in 1..Len(classLog) :
        classLog[n].pack.Type \notin KnownTypes
            => /\ InSeq(classLog[n].pack, primDownload)
               /\ ~ InSeq(classLog[n].pack, primRecycle)

(* C3: in a run of StoreRepo that follows a successful run against the same *)
(* remote, packagesToDownload is empty and every record that passes the     *)
(* filter is in packagesToRecycle (stated for runs in which no checksum     *)
(* query hit a local read failure).                                         *)
C3_SecondRunRecyclesAll ==
    (run >= 2 /\ prevOk /\ InStoreRepo /\ ~ ioFailed)
        => /\ packagesToDownload = << >>
           /\ \A n \in 1..Len(primary) :
                 Considered(primary[n]) => InSeq(primary[n], packagesToRecycle)

\* The operations of the current run, by kind.
IsPkgFetch(o) == o.op = "fetch" /\ o.path \in PkgPaths
IsRecycle(o)  == o.op = "recycle"
IsCommit(o)   == o.op = "commit"

DownloadOps == SelectSeq(ops, IsPkgFetch)
RecycleOps  == SelectSeq(ops, IsRecycle)
CommitOps   == SelectSeq(ops, IsCommit)

\* Paths written or recycled with success in the current run.
StoredOrRecycled ==
    { ops[n].path : n \in { m \in 1..Len(ops) :
                              ops[m].op \in {"fetch", "recycle"} /\ ops[m].out = "ok" } }

(* C4: when a run fails, at whatever stage, the store holds the same paths  *)
(* with the same contents as when the run started.                          *)
C4_FailedRunLeavesStore ==
    pc = "failed" => dir = startDir

(* C5: after a run whose Commit succeeded, every path classified download   *)
(* or recycle is present in the store, and every path of the previous       *)
(* generation that was neither stored nor recycled in this run is absent.   *)
C5_CommitGeneration ==
    pc = "done" =>
        /\ \A n \in 1..Len(packagesToDownload) :
              dir[packagesToDownload[n].Location] # Absent
        /\ \A n \in 1..Len(packagesToRecycle) :
              dir[packagesToRecycle[n].Location] # Absent
        /\ \A p \in Paths :
              (startDir[p] # Absent /\ p \notin StoredOrRecycled) => dir[p] = Absent

C5_Witness ==
    /\ pc = "done"
    /\ Len(packagesToDownload) > 0
    /\ Len(packagesToRecycle) > 0
    /\ \E p \in Paths : startDir[p] # Absent /\ dir[p] = Absent

(* C6: a 404 on repodata/repomd.xml.asc or repodata/repomd.xml.key does not *)
(* abort the run, which goes on to the next stage; a 404 on                 *)
(* repodata/repomd.xml aborts it with that error before any other fetch,    *)
(* recycle or commit.                                                       *)
C6_NotFoundTolerance ==
    \A n \in 1..Len(ops) :
        /\ (ops[n] = Op("fetch", ascPath, "http404") /\ n = Len(ops))
              => (pc = "key" /\ err = NoErr)
        /\ (ops[n] = Op("fetch", keyPath, "http404") /\ n = Len(ops))
              => (pc \in {"download", "recycle", "commit"} /\ err = NoErr)
        /\ ops[n] = Op("fetch", repomdPath, "http404")
              => (Len(ops) = 1 /\ pc = "failed" /\ err = HttpError(404))

C6_Witness ==
    /\ pc = "done"
    /\ InSeq(Op("fetch", ascPath, "http404"), ops)
    /\ InSeq(Op("fetch", keyPath, "http404"), ops)
    /\ Len(DownloadOps) > 0

(* C7: a failure of the fetch-and-store of repomd.xml.asc or repomd.xml.key *)
(* that is not an HTTP 404 is fatal: the run returns that error and does no *)
(* package download, no recycle and no commit.                              *)
C7_SignatureFailureFatal ==
    \A n \in 1..Len(ops) :
        (/\ ops[n].op = "fetch"
         /\ ops[n].path \in {ascPath, keyPath}
         /\ ops[n].out \notin {"ok", "http404"})
            => /\ n = Len(ops)
               /\ pc = "failed"
               /\ err = OutcomeErr(ops[n].out)
               /\ DownloadOps = << >> /\ RecycleOps = << >> /\ CommitOps = << >>

C7_Witness ==
    /\ pc = "failed"
    /\ Len(packagesToDownload) > 0
    /\ \E n \in 1..Len(ops) :
          /\ ops[n].op = "fetch"
          /\ ops[n].path = keyPath
          /\ ops[n].out = "transport"

(* C8: when the download of the k-th package fails StoreRepo returns that   *)
(* error at once: no later package is fetched, nothing is recycled, nothing *)
(* is committed; and Commit is called only after every download and every   *)
(* recycle of the run succeeded.                                            *)
C8_DownloadFailureAborts ==
    /\ Len(DownloadOps) <= Len(packagesToDownload)
    /\ \A m \in 1..Len(DownloadOps) :
          /\ DownloadOps[m].path = packagesToDownload[m].Location
          /\ DownloadOps[m].out # "ok"
                => /\ m = Len(DownloadOps)
                   /\ pc = "failed"
                   /\ err = OutcomeErr(DownloadOps[m].out)
                   /\ RecycleOps = << >>
                   /\ CommitOps = << >>
    /\ CommitOps # << >>
          => /\ Len(CommitOps) = 1
             /\ IsCommit(ops[Len(ops)])
             /\ Len(DownloadOps) = Len(packagesToDownload)
             /\ Len(RecycleOps) = Len(packagesToRecycle)
             /\ \A m \in 1..Len(RecycleOps) :
                   /\ RecycleOps[m].path = packagesToRecycle[m].Location
                   /\ RecycleOps[m].out = "ok"

C8_Witness ==
    /\ pc = "failed"
    /\ Len(packagesToDownload) = 2
    /\ Len(DownloadOps) = 1
    /\ DownloadOps[1].out = "http504"

\* A query error that is not ErrFileNotFound.
QueryFailed(e) == e.err # NoErr /\ e.err # ErrFileNotFound

NotQueryFailed(e) == ~ QueryFailed(e)

\* Whether some record of the log at Location path was not skipped.
KeptAt(path) ==
    \E m \in 1..Len(classLog) :
        classLog[m].pack.Location = path /\ ~ QueryFailed(classLog[m])

(* C9: a record whose checksum query fails with an error other than         *)
(* ErrFileNotFound is skipped: it enters neither list, it is neither fetched *)
(* nor recycled in the run, and the run is not aborted by it.               *)
C9_QueryErrorSkips ==
    /\ Len(primDownload) + Len(primRecycle)
          = Len(SelectSeq(classLog, NotQueryFailed))
    /\ (ops # << >> /\ ops[Len(ops)].op = "checksum")
          => (pc # "failed" /\ err = NoErr)
    /\ \A n \in 1..Len(classLog) :
          QueryFailed(classLog[n]) =>
             /\ ~ KeptAt(classLog[n].pack.Location)
                   => /\ \A m \in 1..Len(primDownload) :
                            primDownload[m].Location # classLog[n].pack.Location
                      /\ \A m \in 1..Len(primRecycle) :
                            primRecycle[m].Location # classLog[n].pack.Location
                      /\ \A m \in 1..Len(ops) :
                            ops[m].path = classLog[n].pack.Location
                               => ops[m].op = "checksum"

C9_Witness ==
    /\ pc = "done"
    /\ Len(classLog) = 2
    /\ classLog[1].err = ChecksumError
    /\ classLog[1].pack.Type \in KnownTypes
    /\ classLog[2].err = NoErr
    /\ Len(RecycleOps) = 1

\* The records of a manifest prefix that the filter, as specified, lets in.
ConsideredPrefix(n) == SelectSeq(SubSeq(primary, 1, n), Considered)

(* C10: a record is queried and classified iff the filter is empty, or its  *)
(* architecture is "noarch", or its architecture is in the filter; any      *)
(* other record is left out: no checksum query, no download, no recycle,    *)
(* no skip.                                                                 *)
C10_ArchitectureFilter ==
    /\ pc = "classify" =>
          /\ Len(classLog) = Len(ConsideredPrefix(j - 1))
          /\ \A n \in 1..Len(classLog) :
                classLog[n].pack = ConsideredPrefix(j - 1)[n]
    /\ \A n \in 1..Len(primDownload) : Considered(primDownload[n])
    /\ \A n \in 1..Len(primRecycle) : Considered(primRecycle[n])
    /\ \A n \in 1..Len(packagesToDownload) : Considered(packagesToDownload[n])
    /\ \A n \in 1..Len(packagesToRecycle) : Considered(packagesToRecycle[n])

C10_Witness ==
    /\ Classified
    /\ DOMAIN archs # {}
    /\ Len(primary) = 2
    /\ primary[1].Arch = "i386"
    /\ primary[2].Arch = "noarch"
    /\ Len(classLog) = 1
    /\ classLog[1].pack = primary[2]

\* The manifest last decoded holds one record only at Location path.
UniqueLocation(path) ==
    Cardinality({ n \in 1..Len(primary) : primary[n].Location = path }) = 1

\* The checksum query of a log entry succeeded with the manifest's value.
Matches(e) == e.err = NoErr /\ e.sum = e.pack.Checksum

(* C11: a filtered record whose stored checksum equals the manifest's is    *)
(* classified recycle, and the run issues no HTTP fetch for its location:   *)
(* the store is only asked to Recycle it (locations being unique in the     *)
(* manifest).                                                               *)
C11_MatchIsRecycleNoFetch ==
    \A n \in 1..Len(classLog) :
        Matches(classLog[n]) =>
            /\ InSeq(classLog[n].pack, primRecycle)
            /\ ~ InSeq(classLog[n].pack, primDownload)
            /\ UniqueLocation(classLog[n].pack.Location) =>
                  \A m \in 1..Len(ops) :
                      ops[m].path = classLog[n].pack.Location
                          => ops[m].op \in {"checksum", "recycle"}

C11_Witness ==
    /\ pc = "done"
    /\ \E n \in 1..Len(classLog) :
          /\ Matches(classLog[n])
          /\ InSeq(Op("recycle", classLog[n].pack.Location, "ok"), ops)
          /\ ~ InSeq(Op("fetch", classLog[n].pack.Location, "ok"), ops)
    /\ Len(DownloadOps) > 0

----------------------------------------------------------------------------
(* Runs that start from an empty local store.  StoreRepo is sequential code *)
(* without waiting: a step that can be taken is taken.                      *)

InitEmpty == Init /\ \A p \in Paths : dir[p] = Absent

SpecEmptyStore == InitEmpty /\ [][Next]_vars /\ WF_vars(Next)

\* Some fetch of the current run did not succeed.
SomeFetchFailed ==
    \E n \in 1..Len(ops) : ops[n].op = "fetch" /\ ops[n].out # "ok"

\* In the first run every query so far found no file and led to a download,
\* and once Commit is called every filtered location is stored.
FirstRunDownloadsAll ==
    run = 1 =>
        /\ \A n \in 1..Len(classLog) :
              /\ classLog[n].err = ErrFileNotFound
              /\ InSeq(classLog[n].pack, primDownload)
        /\ primRecycle = << >>
        /\ packagesToRecycle = << >>
        /\ CommitOps # << >> =>
              \A n \in 1..Len(primary) :
                  Considered(primary[n]) =>
                      dir[primary[n].Location] = RemoteContent(primary[n].Location)

(* C12: from an empty local store every filtered record gets                *)
(* ErrFileNotFound and is classified download, packagesToRecycle is empty,  *)
(* and, every fetch succeeding, the run eventually calls Commit with every  *)
(* such location stored.                                                    *)
C12_EmptyStoreReachesCommit ==
    /\ [] FirstRunDownloadsAll
    /\ (run = 1 /\ pc = "index") ~> (run = 1 /\ (CommitOps # << >> \/ SomeFetchFailed))

C12_Witness ==
    /\ run = 1
    /\ pc = "done"
    /\ Len(packagesToDownload) = 2
    /\ ~ SomeFetchFailed
    /\ \A n \in 1..Len(packagesToDownload) :
          dir[packagesToDownload[n].Location] = "new"

----------------------------------------------------------------------------
(* The storing reader byte by byte: one reader from NewStoringReader, the    *)
(* caller's Read calls and one Close.  The source holds sr.body; the caller  *)
(* (a decoder, or a plain copy) chooses how many Read calls it makes; the    *)
(* source hands out between 1 and MaxChunk bytes per call.  A Read of the    *)
(* source that returns bytes together with an error leaves the same bytes in *)
(* the same places as one that returns them without, so it is not a case of  *)
(* its own.                                                                  *)

\* A file of an earlier run under the same name.
StaleFile == << 0 >>

InitReader ==
    /\ index = << >>
    /\ manifest = << >>
    /\ archs = EmptyMap
    /\ dir = [p \in Paths |-> Absent]
    /\ current = {}
    /\ pc = "idle"
    /\ data = << >>
    /\ i = 1
    /\ primary = << >>
    /\ j = 1
    /\ primDownload = << >>
    /\ primRecycle = << >>
    /\ packagesToDownload = << >>
    /\ packagesToRecycle = << >>
    /\ k = 1
    /\ err = NoErr
    /\ run = 0
    /\ ops = << >>
    /\ classLog = << >>
    /\ startDir = dir
    /\ prevOk = FALSE
    /\ ioFailed = FALSE
    /\ \E b \in Bodies, d \in 0..MaxBody, f \in {<< >>, StaleFile} :
          /\ d <= Len(b)
          /\ sr = [NoReader EXCEPT !.body = b, !.docLen = d, !.file = f]

syncerVars ==
    << index, manifest, archs, dir, current, pc, data, i, primary, j,
       primDownload, primRecycle, packagesToDownload, packagesToRecycle,
       k, err, run, ops, classLog, startDir, prevOk, ioFailed >>

\* NewStoringReader: os.Create truncates the file or fails; the writer starts
\* with an empty buffer.
SRNew(createFail) ==
    /\ sr.st = "none"
    /\ sr' = IF createFail
             THEN [sr EXCEPT !.st = "nofile"]
             ELSE [sr EXCEPT !.st = "open", !.file = << >>, !.buf = << >>]
    /\ UNCHANGED syncerVars

\* storingReader.Read: the TeeReader reads n bytes of the source and writes
\* them to the buffered writer; it returns the bytes the writer accepted (all
\* n of them unless the write failed, and then the write's error with them).
\* sr.pos is the position in the source, sr.got the bytes returned so far.
SRRead(n, dfail) ==
    /\ sr.st = "open"
    /\ n >= 1
    /\ sr.pos + n <= Len(sr.body)
    /\ LET p == SubSeq(sr.body, sr.pos + 1, sr.pos + n)
           r == BufWrite(sr, p, dfail, 0)
       IN  sr' = [r.w EXCEPT !.pos = sr.pos + n,
                             !.got = sr.got \o SubSeq(p, 1, r.nn)]
    /\ UNCHANGED syncerVars

\* storingReader.Close without the Flush.
SRCloseNoFlush(rfail, dfail) ==
    /\ sr.st = "open"
    /\ sr' = [sr EXCEPT !.st = "closed", !.closes = sr.closes + 1,
                        !.closeErr = IF rfail THEN "reader"
                                     ELSE IF sr.werr THEN "write" ELSE "nil"]
    /\ UNCHANGED syncerVars

\* storingReader.Close: close the source; if that fails return its error;
\* else return what Flush returns.
SRClose(rfail, dfail) ==
    /\ sr.st = "open"
    /\ IF rfail
       THEN sr' = [sr EXCEPT !.st = "closed", !.closes = sr.closes + 1,
                             !.closeErr = "reader"]
       ELSE LET w == Flush(sr, dfail)
            IN  sr' = [w EXCEPT !.st = "closed", !.closes = sr.closes + 1,
                                !.closeErr = IF w.werr THEN "write" ELSE "nil"]
    /\ UNCHANGED syncerVars

NextReader ==
    \/ \E createFail \in BOOLEAN : SRNew(createFail)
    \/ \E n \in 1..MaxChunk, dfail \in BOOLEAN : SRRead(n, dfail)
    \/ \E rfail \in BOOLEAN, dfail \in BOOLEAN : SRClose(rfail, dfail)

SpecStoringReader == InitReader /\ [][NextReader]_vars

\* Every byte handed to the writer was written without error so far.
NoWriteError == ~ sr.werr

----------------------------------------------------------------------------
(* C13: a Close flushes every buffered write to the file and closes the     *)
(* underlying reader exactly once, on every path, the one where closing the *)
(* reader returns an error included: once the reader is closed, and unless  *)
(* a write to the file failed, the file holds every byte that was written   *)
(* to the stream, and the reader was closed once.                           *)

C13_CloseFlushesOnEveryPath ==
    (sr.st = "closed" /\ NoWriteError) =>
        (sr.closes = 1 /\ sr.buf = << >> /\ sr.file = sr.got)

----------------------------------------------------------------------------
(* C17: after a fetch-and-store of the index or of the primary manifest     *)
(* that succeeded (the decoder has read its document, sr.docLen bytes of    *)
(* the body, and Close returned no error) the stored file holds all bytes   *)
(* of the response body, from first to last.                                *)

Decoded == sr.docLen >= 1 /\ Len(sr.got) >= sr.docLen

C17_StoredFileHoldsWholeBody ==
    (sr.st = "closed" /\ sr.closeErr = "nil" /\ Decoded) => sr.file = sr.body

----------------------------------------------------------------------------
(* C18: after any sequence of Read calls and a Close that returns no error, *)
(* the file holds exactly the bytes the Read calls returned, in their       *)
(* order, nothing added, dropped or reordered; the bytes of the source that *)
(* were never read are not in the file.                                     *)

C18_FileIsWhatWasRead ==
    (sr.st = "closed" /\ sr.closeErr = "nil") =>
        /\ sr.file = sr.got
        /\ sr.got = SubSeq(sr.body, 1, sr.pos)

\* More bytes read than the buffer holds, some bytes of the source left
\* unread, and Close returned no error.
C18_Witness ==
    /\ sr.st = "closed"
    /\ sr.closeErr = "nil"
    /\ Len(sr.got) > BufSize
    /\ Len(sr.got) < Len(sr.body)
    /\ sr.file = sr.got

----------------------------------------------------------------------------
(* C14: the stages of one run occur in a fixed order: the index fetch is    *)
(* first; the index entries are processed in document order; the fetch of   *)
(* repomd.xml.asc and then of repomd.xml.key happen only after all entries  *)
(* were processed; every package download comes after both signature        *)
(* fetches; every Recycle after the last package download; Commit is the    *)
(* last store operation and is called at most once per run.                 *)

EntryPaths == { PrimaryHref, Primary2Href, OtherHref }

IsEntryFetch(o) == o.op = "fetch" /\ o.path \in EntryPaths

EntryFetches == SelectSeq(ops, IsEntryFetch)

\* The stage an operation of the run belongs to.
Stage(o) ==
    IF o.op = "fetch" /\ o.path = repomdPath THEN 0
    ELSE IF IsEntryFetch(o) \/ o.op = "checksum" THEN 1
    ELSE IF o.op = "fetch" /\ o.path = ascPath THEN 2
    ELSE IF o.op = "fetch" /\ o.path = keyPath THEN 3
    ELSE IF IsPkgFetch(o) THEN 4
    ELSE IF IsRecycle(o) THEN 5
    ELSE 6

StageCount(st) == Cardinality({ n \in 1..Len(ops) : Stage(ops[n]) = st })

\* Stages where the run makes one operation at most.
SingleStages == {0, 2, 3, 6}

\* Two operations that follow one another are in the order of the stages.
InOrder(o1, o2) ==
    LET s1 == Stage(o1)
        s2 == Stage(o2)
    IN  s1 < s2 \/ (s1 = s2 /\ s1 \notin SingleStages)

Fetched(path) == \E n \in 1..Len(ops) : ops[n].path = path

C14_StageOrder ==
    /\ ops # << >> => ops[1].path = repomdPath
    /\ \A n \in 1..(Len(ops) - 1) : InOrder(ops[n], ops[n + 1])
    /\ LET entries == EntryFetches
       IN  /\ Len(entries) <= Len(index)
           /\ \A n \in 1..Len(entries) : entries[n].path = index[n].Location
           /\ Fetched(ascPath) =>
                 /\ Len(entries) = Len(index)
                 /\ \A n \in 1..Len(entries) : entries[n].out = "ok"
    /\ Fetched(keyPath) => Fetched(ascPath)
    /\ (\E n \in 1..Len(ops) :
            IsPkgFetch(ops[n]) \/ IsRecycle(ops[n]) \/ IsCommit(ops[n]))
          => Fetched(keyPath)

\* A run over an index of two entries that went through every stage.
C14_Witness ==
    /\ pc = "done"
    /\ Len(index) = 2
    /\ StageCount(1) > 2
    /\ StageCount(4) > 0
    /\ StageCount(5) > 0
    /\ StageCount(6) = 1

----------------------------------------------------------------------------
(* C15: when the processing of an index entry fails (fetch, store or decode *)
(* error) the run aborts with that error: the failed entry's fetch is the   *)
(* last operation of the run, so no later entry is fetched, no signature    *)
(* file is fetched, and nothing is downloaded, recycled or committed.       *)

C15_EntryFailureAborts ==
    \A n \in 1..Len(ops) :
        (IsEntryFetch(ops[n]) /\ ops[n].out # "ok") =>
            /\ n = Len(ops)
            /\ pc = "failed"
            /\ err = OutcomeErr(ops[n].out)
            /\ \A st \in 2..6 : StageCount(st) = 0

\* The first of two entries failed after its file was created.
C15_Witness ==
    /\ Len(index) = 2
    /\ Len(ops) = 2
    /\ ops[2].path = index[1].Location
    /\ ops[2].out = "read"
    /\ pc = "failed"

----------------------------------------------------------------------------
(* C16: locations being unique in the manifest, when processPrimary returns *)
(* without error every record that passed the architecture filter is in     *)
(* exactly one of three outcomes (to download, to recycle, skipped), the    *)
(* two lists are disjoint, and neither holds a record that failed the       *)
(* filter.                                                                  *)

UniqueLocations == \A n \in 1..Len(primary) : UniqueLocation(primary[n].Location)

Skipped(pack) ==
    \E m \in 1..Len(classLog) :
        classLog[m].pack = pack /\ classLog[m].class = "skip"

\* In how many of the three outcomes a record is.
OutcomeCount(pack) ==
    Cardinality({ c \in {"download", "recycle", "skip"} :
                    \/ c = "download" /\ InSeq(pack, primDownload)
                    \/ c = "recycle" /\ InSeq(pack, primRecycle)
                    \/ c = "skip" /\ Skipped(pack) })

C16_ClassificationPartition ==
    (Classified /\ UniqueLocations) =>
        /\ \A n \in 1..Len(primary) :
              OutcomeCount(primary[n]) = IF Considered(primary[n]) THEN 1 ELSE 0
        /\ \A m \in 1..Len(primDownload), n \in 1..Len(primRecycle) :
              primDownload[m] # primRecycle[n]
        /\ \A m \in 1..Len(primDownload) :
              InSeq(primDownload[m], primary) /\ Considered(primDownload[m])
        /\ \A n \in 1..Len(primRecycle) :
              InSeq(primRecycle[n], primary) /\ Considered(primRecycle[n])
        /\ Len(primDownload) + Len(primRecycle) <= Len(primary)

\* Two records at two locations under a filter: one to download, the other
\* not on any list.
C16_Witness ==
    /\ Classified
    /\ UniqueLocations
    /\ Len(primary) = 2
    /\ DOMAIN archs # {}
    /\ Len(primDownload) = 1
    /\ Len(primRecycle) = 0

----------------------------------------------------------------------------
(* C19: the lists StoreRepo downloads and recycles from are those of the    *)
(* last index entry of type "primary": the results of earlier primary       *)
(* entries are discarded, not merged; with no primary entry both lists are  *)
(* empty and the run goes on to the signature fetches and to Commit.        *)

PrimaryEntries == { n \in 1..Len(index) : index[n].Type = "primary" }

\* The manifest of the last primary entry; none when there is no such entry.
LastManifest ==
    IF PrimaryEntries = {} THEN << >>
    ELSE RemoteManifest(index[CHOOSE n \in PrimaryEntries :
                                  \A m \in PrimaryEntries : m <= n].Location)

C19_LastPrimaryWins ==
    /\ InStoreRepo =>
          /\ packagesToDownload = primDownload
          /\ packagesToRecycle = primRecycle
          /\ primary = LastManifest
          /\ \A n \in 1..Len(packagesToDownload) :
                InSeq(packagesToDownload[n], LastManifest)
          /\ \A n \in 1..Len(packagesToRecycle) :
                InSeq(packagesToRecycle[n], LastManifest)
          /\ \A n \in 1..Len(DownloadOps) :
                DownloadOps[n].path = packagesToDownload[n].Location
          /\ \A n \in 1..Len(RecycleOps) :
                RecycleOps[n].path = packagesToRecycle[n].Location
    /\ (PrimaryEntries = {} /\ pc \in {"asc", "key"} \cup {"commit", "done", "failed"}) =>
          /\ packagesToDownload = << >>
          /\ packagesToRecycle = << >>
          /\ pc = "failed" => ops[Len(ops)].out # "ok"
    /\ (PrimaryEntries = {} /\ run > 0) => pc \notin {"download", "recycle"}

\* Two primary entries: the first manifest had a record to download at
\* a.rpm, which is not fetched; the list is that of the second manifest.
C19_Witness ==
    /\ pc = "done"
    /\ Cardinality(PrimaryEntries) = 2
    /\ \E n \in 1..Len(ops) : ops[n] = Op("checksum", "a.rpm", "download")
    /\ packagesToDownload = Manifest2
    /\ \A n \in 1..Len(ops) : ~ (IsPkgFetch(ops[n]) /\ ops[n].path = "a.rpm")

\* No primary entry: the run reached Commit with nothing to download or keep.
C19_NoPrimaryCommits ==
    /\ pc = "done"
    /\ PrimaryEntries = {}
    /\ Len(ops) = 4
    /\ IsCommit(ops[4])

----------------------------------------------------------------------------
(* Metadata is fetched, never recycled.                                     *)

EntryLocations == { index[n].Location : n \in 1..Len(index) }

\* The outcomes of the run's fetches of a path, in order.
IsFetchOf(path, o) == o.op = "fetch" /\ o.path = path

FetchOutcomes(path) ==
    LET at == { n \in 1..Len(ops) : IsFetchOf(path, ops[n]) }
    IN  { ops[n].out : n \in at }

FetchCount(path) == Cardinality({ n \in 1..Len(ops) : IsFetchOf(path, ops[n]) })

\* Only package locations are queried for a checksum or recycled.
OnlyPackagesDecided ==
    \A n \in 1..Len(ops) :
        ops[n].op \in {"checksum", "recycle"} => ops[n].path \in PkgPaths

\* The claim as stated: in a run that completes, the index, every entry's
\* location and both signature files are fetched and written again.
C20_MetadataAlwaysWritten ==
    /\ OnlyPackagesDecided
    /\ pc = "done" =>
          \A p \in {repomdPath, ascPath, keyPath} \cup EntryLocations :
              FetchCount(p) = 1 /\ FetchOutcomes(p) = {"ok"}

(* C20: no checksum query and no Recycle is ever made for a metadata path;  *)
(* in every run that completes, whatever the store holds, the index and     *)
(* every entry's location are fetched over HTTP and written again, and each *)
(* signature file is requested over HTTP and written again unless the       *)
(* request fails with a 404 error, in which case nothing is written for it. *)
C20_MetadataFetchedNeverRecycled ==
    /\ OnlyPackagesDecided
    /\ pc = "done" =>
          /\ \A p \in {repomdPath} \cup EntryLocations :
                FetchCount(p) = 1 /\ FetchOutcomes(p) = {"ok"}
          /\ \A p \in {ascPath, keyPath} :
                /\ FetchCount(p) = 1
                /\ \A o \in FetchOutcomes(p) : o = "ok" \/ Is404(OutcomeErr(o))

\* A second run over a store that holds all the metadata of the first:
\* everything is fetched again, and the key answers 404 this time.
C20_Witness ==
    /\ run = 2
    /\ pc = "done"
    /\ Len(index) = 2
    /\ \A p \in {repomdPath, ascPath, keyPath} \cup EntryLocations :
          startDir[p] # Absent
    /\ FetchOutcomes(ascPath) = {"ok"}
    /\ FetchOutcomes(keyPath) = {"http404"}

====
